---------------------------- MODULE Spec2Model ----------------------------
(***************************************************************************)
(* Texas Legal Graph: the cascading retrieval of app.py (Gold, Silver,     *)
(* Bronze), the Cypher queries it issues, the confidence shown on a card,  *)
(* and the scoring function of benchmark.py.                               *)
(*                                                                         *)
(* Conventions.                                                            *)
(*  - A value that may be None/null is a sequence of length 0 or 1:        *)
(*    None is << >>, the value v is << v >>.                               *)
(*  - A Python or Cypher string whose content is inspected is a sequence   *)
(*    of one-character strings.                                            *)
(*  - A similarity score is an integer number of thousandths (0..1000      *)
(*    stands for 0.000..1.000).                                            *)
(***************************************************************************)
EXTENDS Integers, Sequences, FiniteSets, TLC

VARIABLES
    cites,          \* the CITES relationships of the store: pairs <<from, to>>
    vector_index,   \* the rows db.index.vector.queryNodes yields for the query
    results,        \* st.session_state.results
    analysis,       \* st.session_state.analysis
    search_method,  \* st.session_state.search_method
    case_input,     \* st.session_state.case_input
    issued,         \* the store queries of the latest script run, in order
    error_shown,    \* st.error was called in the latest script run
    last,           \* the button handled by the latest script run, with its inputs
    expanded,       \* the latest call of graph_rag_search on its own, with its result
    card,           \* a result record shown as a card
    conf,           \* the confidence computed for the card
    ground_truth_list, \* calculate_score: its first argument
    retrieved_list,    \* calculate_score: its second argument
    score,             \* calculate_score: what it returned
    test_cases,     \* benchmark main: test_cases
    case_i,         \* benchmark main: i, the index of the case of the loop, from 1
    at,             \* benchmark main: the position in the loop body
    calls,          \* benchmark main: the service calls made for the case, in order
    retrieval,      \* the latest call of retrieve_cases, with its result
    vector_scores,  \* benchmark main: vector_scores
    graph_scores,   \* benchmark main: graph_scores
    scored_v,       \* the index of the case each entry of vector_scores was computed for
    scored_g        \* the index of the case each entry of graph_scores was computed for

storeVars == << cites, vector_index >>

sessionVars == << results, analysis, search_method, case_input, issued, error_shown, last >>

expandVars == << expanded >>

cardVars == << card, conf >>

scoreVars == << ground_truth_list, retrieved_list, score >>

benchVars ==
    << test_cases, case_i, at, calls, retrieval, vector_scores, graph_scores,
       scored_v, scored_g >>

vars == << storeVars, sessionVars, expandVars, cardVars, scoreVars, benchVars >>

-----------------------------------------------------------------------------
(* Bounds of the model.                                                    *)

MaxCases == 3

MaxEdges == 2

\* the graphs on which graph_rag_search is run on its own
MaxExpandCases == 4

MaxExpandEdges == 3

\* the largest citation_count of a card
MaxCitations == 20

\* the longest lists given to calculate_score
MaxTruth == 2

MaxRetrieved == 2

\* the most CITES relationships of a store of the benchmark
MaxBenchEdges == 3

\* the sample size main asks get_test_set for (150 in the program)
SampleSize == 2

-----------------------------------------------------------------------------
(* Program constants.                                                      *)

\* top_k / top_k_anchors of the two search functions
TopK == 5

\* LIMIT 5 of the graph query
ResultLimit == 5

\* collect(DISTINCT anchorCase.name)[..3]
FoundViaLimit == 3

\* int(case['relevance_score'] * 100)
Percent == 100

\* case['citation_count'] * 5
CitationBonus == 5

\* min(conf, 99)
ConfidenceCap == 99

\* get_test_set: count{(cited)<-[:CITES]-()} >= 2
AuthorityCitations == 2

\* get_test_set: LIMIT 2000
TestSetLimit == 2000

\* retrieve_cases, use_graph: queryNodes($index_name, 50, $embedding)
BenchAnchors == 50

\* retrieve_cases: queryNodes($index_name, 10, $embedding) and LIMIT 10
BenchLimit == 10

-----------------------------------------------------------------------------
(* Optional values and strings.                                            *)

None == << >>

Some(v) == << v >>

Min(a, b) == IF a <= b THEN a ELSE b

Max(a, b) == IF a >= b THEN a ELSE b

LowerOf ==
    [c \in {"A", "C", "D", "E", "F", "I", "M", "Q", "R", "S", "T", "U", "V", "W", "H"} |->
        CASE c = "A" -> "a" [] c = "C" -> "c" [] c = "D" -> "d" [] c = "E" -> "e"
          [] c = "F" -> "f" [] c = "I" -> "i" [] c = "M" -> "m" [] c = "Q" -> "q"
          [] c = "R" -> "r" [] c = "S" -> "s" [] c = "T" -> "t" [] c = "U" -> "u"
          [] c = "V" -> "v" [] c = "W" -> "w" [] c = "H" -> "h"]

\* toLower of Cypher, str.lower of Python
ToLower(s) ==
    [i \in 1..Len(s) |-> IF s[i] \in DOMAIN LowerOf THEN LowerOf[s[i]] ELSE s[i]]

\* s CONTAINS sub of Cypher
Contains(s, sub) ==
    \E i \in 1..(Len(s) - Len(sub) + 1) : SubSeq(s, i, i + Len(sub) - 1) = sub

-----------------------------------------------------------------------------
(* The store: CASE nodes 1, 2, ..., their properties, their TEXT nodes.     *)
(* The properties of a node are fixed per node id; the CITES relationships *)
(* and the rows of the vector index vary over all graphs within the bounds.*)

Pick(table, c) == table[((c - 1) % Len(table)) + 1]

\* case.name
NameOf(c) ==
    Pick(<< Some("Roe v. State"), Some("Doe v. State"), Some("Roe v. State"),
            None, Some("Poe v. State") >>, c)

\* case.decisionSummary
DecisionOf(c) ==
    Pick(<< Some(<<"A","F","F","I","R","M","E","D">>),
            Some(<<"R","e","v","e","r","s","e","d">>),
            None,
            Some(<<"A","c","q","u","i","t","t","e","d">>),
            Some(<<"D","i","s","m","i","s","s","e","d">>) >>, c)

\* case.offense
OffenseOf(c) ==
    Pick(<< Some(<<"D","W","I">>), Some(<<"T","h","e","f","t">>), None,
            Some(<<"d","w","i">>), Some(<<"T","h","e","f","t">>) >>, c)

\* the text properties of the TEXT nodes a case HAS_TEXT to, one entry per node
TextsOf(c) ==
    Pick(<< <<"opinion 1">>,
            <<"opinion 2, part a", "opinion 2, part b">>,
            << >>,
            <<"opinion 4">>,
            <<"opinion 5, part a", "opinion 5, part b">> >>, c)

\* the similarity score, in thousandths, the index gives a case for the query
SimilarityOf(c) == Pick(<< 900, 555, 555, 250, 970 >>, c)

-----------------------------------------------------------------------------
(* Sequence helpers.                                                       *)

Prefix(s, n) == SubSeq(s, 1, Min(n, Len(s)))

\* the elements of a sequence, each kept at its first occurrence only
RECURSIVE Distinct(_)
Distinct(s) ==
    IF s = << >> THEN << >>
    ELSE LET front == Distinct(SubSeq(s, 1, Len(s) - 1))
             x == s[Len(s)]
         IN  IF \E i \in 1..Len(front) : front[i] = x THEN front
             ELSE Append(front, x)

-----------------------------------------------------------------------------
(* db.index.vector.queryNodes($index_name, $top_k, $embedding): at most    *)
(* top_k rows [node, score], by descending score.                          *)

QueryNodes(index, top_k) == Prefix(index, top_k)

\* the rows OPTIONAL MATCH (c)-[:HAS_TEXT]->(t:TEXT) adds to a row for case c:
\* one per TEXT node, or a single one with t null
TextRows(c) ==
    IF TextsOf(c) = << >> THEN { 0 } ELSE 1..Len(TextsOf(c))

TextAt(c, j) == IF j = 0 THEN None ELSE Some(TextsOf(c)[j])

\* the least TEXT node of c that carries the same text as node j
TextKey(c, j) ==
    IF j = 0 THEN 0
    ELSE CHOOSE k \in 1..j : /\ TextsOf(c)[k] = TextsOf(c)[j]
                             /\ \A h \in 1..(k - 1) : TextsOf(c)[h] # TextsOf(c)[j]


-----------------------------------------------------------------------------
(* graph_rag_search: the Cypher query of the Gold and Silver tiers.        *)

\* FilterClause with the strategy test failing: every strategy gets 'affirm'
FilterClauseAffirmOnly(strategy, apply_filter) ==
    IF apply_filter THEN Some({ <<"a","f","f","i","r","m">> }) ELSE None

\* filter_clause: None when no WHERE is added, else the keywords of the WHERE
FilterClause(strategy, apply_filter) ==
    IF apply_filter
    THEN IF strategy = "defense"
         THEN Some({ <<"r","e","v","e","r","s","e">>, <<"a","c","q","u","i","t">> })
         ELSE Some({ <<"a","f","f","i","r","m">> })
    ELSE None

\* WHERE (toLower(precedent.decisionSummary) CONTAINS kw OR ...); a null
\* decisionSummary makes the predicate null and the row is dropped
PassesFilter(clause, precedent) ==
    \/ clause = None
    \/ /\ DecisionOf(precedent) # None
       /\ \E kw \in clause[1] : Contains(ToLower(DecisionOf(precedent)[1]), kw)

\* MATCH (anchorCase)-[:CITES*1..2]->(precedent:CASE): one row per path of one
\* or two relationships, no relationship used twice in a path
CitesPaths(edges, a) ==
    { << e[1], e[2] >> : e \in { e \in edges : e[1] = a } }
    \cup
    { << ef[1][1], ef[1][2], ef[2][2] >> :
        ef \in { ef \in edges \X edges :
                    ef[1][1] = a /\ ef[2][1] = ef[1][2] /\ ef[1] # ef[2] } }

\* the rows before RETURN: anchor row i, a path from its node, and a TEXT node
\* (or none) of the path's last node
MatchRows(edges, anchor_rows, clause) ==
    UNION { UNION { { [a |-> i, path |-> pa, p |-> pa[Len(pa)], t |-> j] :
                        j \in TextRows(pa[Len(pa)]) } :
                    pa \in { pa \in CitesPaths(edges, anchor_rows[i].node) :
                                PassesFilter(clause, pa[Len(pa)]) } } :
            i \in 1..Len(anchor_rows) }

\* the grouping key of RETURN: the non-aggregated columns id, title, offense,
\* decision and full_text; the first three depend on the precedent only
GroupKey(r) == << r.p, TextKey(r.p, r.t) >>

\* the names collect() gathers for a group, by anchor row; null names are skipped
RECURSIVE AnchorNames(_, _, _)
AnchorNames(anchor_rows, group, i) ==
    IF i > Len(anchor_rows) THEN << >>
    ELSE LET name == NameOf(anchor_rows[i].node)
             n == Cardinality({ r \in group : r.a = i })
             here == IF name = None THEN << >> ELSE [k \in 1..n |-> name[1]]
         IN  here \o AnchorNames(anchor_rows, group, i + 1)

MaxScore(anchor_rows, group) ==
    LET scores == { anchor_rows[r.a].score : r \in group }
    IN  CHOOSE s \in scores : \A u \in scores : u <= s

\* one record of the RETURN clause
GroupRecord(anchor_rows, rows, key) ==
    LET group == { r \in rows : GroupKey(r) = key }
    IN  [ id |-> key[1],
          title |-> NameOf(key[1]),
          offense |-> OffenseOf(key[1]),
          decision |-> DecisionOf(key[1]),
          full_text |-> TextAt(key[1], key[2]),
          citation_count |-> Cardinality(group),
          found_via |-> Prefix(Distinct(AnchorNames(anchor_rows, group, 1)), FoundViaLimit),
          relevance_score |-> MaxScore(anchor_rows, group),
          key |-> key ]

\* ORDER BY citation_count DESC, relevance_score DESC; records equal in both
\* keep the store's order, taken here as ascending (id, TEXT node)
OrderedBefore(x, y) ==
    \/ x.citation_count > y.citation_count
    \/ /\ x.citation_count = y.citation_count
       /\ x.relevance_score > y.relevance_score
    \/ /\ x.citation_count = y.citation_count
       /\ x.relevance_score = y.relevance_score
       /\ \/ x.key[1] < y.key[1]
          \/ x.key[1] = y.key[1] /\ x.key[2] < y.key[2]

RECURSIVE OrderBy(_)
OrderBy(S) ==
    IF S = {} THEN << >>
    ELSE LET m == CHOOSE x \in S : \A y \in S \ {x} : OrderedBefore(x, y)
         IN  << m >> \o OrderBy(S \ {m})

\* record.data(): the columns of the RETURN clause
Data(g) ==
    [ id |-> g.id, title |-> g.title, offense |-> g.offense, decision |-> g.decision,
      full_text |-> g.full_text, citation_count |-> g.citation_count,
      found_via |-> g.found_via, relevance_score |-> g.relevance_score ]

\* the records of RETURN, before ORDER BY and LIMIT
Groups(edges, anchor_rows, clause) ==
    LET rows == MatchRows(edges, anchor_rows, clause)
    IN  { GroupRecord(anchor_rows, rows, k) : k \in { GroupKey(r) : r \in rows } }

CypherGraphQuery(edges, index, top_k, clause) ==
    LET sorted == Prefix(OrderBy(Groups(edges, QueryNodes(index, top_k), clause)),
                         ResultLimit)
    IN  [i \in 1..Len(sorted) |-> Data(sorted[i])]

\* graph_rag_search(embedding, strategy, top_k_anchors=5, apply_filter); the
\* embedding is given by the rows the index yields for it; raises says that
\* session.run raises, which the except clause turns into []
graph_rag_search(edges, index, strategy, apply_filter, raises) ==
    IF raises THEN << >>
    ELSE CypherGraphQuery(edges, index, TopK, FilterClause(strategy, apply_filter))

-----------------------------------------------------------------------------
(* vector_only_search: the Cypher query of the Bronze tier.                *)

RECURSIVE VectorRows(_, _)
VectorRows(anchor_rows, i) ==
    IF i > Len(anchor_rows) THEN << >>
    ELSE LET c == anchor_rows[i].node
             texts == IF TextsOf(c) = << >> THEN << None >>
                      ELSE [j \in 1..Len(TextsOf(c)) |-> Some(TextsOf(c)[j])]
         IN  [j \in 1..Len(texts) |->
                [ id |-> c, title |-> NameOf(c), offense |-> OffenseOf(c),
                  decision |-> DecisionOf(c), full_text |-> texts[j],
                  citation_count |-> 0, found_via |-> << >>,
                  relevance_score |-> anchor_rows[i].score ]]
             \o VectorRows(anchor_rows, i + 1)

vector_only_search(index, top_k, raises) ==
    IF raises THEN << >>
    ELSE VectorRows(QueryNodes(index, top_k), 1)

-----------------------------------------------------------------------------
(* main(): the ANALYZE and CLEAR buttons over st.session_state.            *)

Tiers == { "Gold", "Silver", "Bronze" }

Strategies == { "Defense", "Prosecution" }

InputTexts == { "", "burglary of a habitation at night" }

\* what get_embedding returns: None when embed_content raises, else the vector
\* of the service, which the caller tests for truth
Embeddings == { None, Some(<< >>), Some(<< 12, 7 >>) }

Truthy(emb) == emb # None /\ emb[1] # << >>

\* strat_key = "defense" if "Defense" in strategy else "prosecution"
StratKey(strategy) == IF strategy = "Defense" THEN "defense" ELSE "prosecution"

\* lines 380-382: the last fallback, reached with no result so far
BronzeStep(log, index, raising) ==
    Append(log, [ tier |-> "Bronze", raised |-> "Bronze" \in raising,
                  out |-> vector_only_search(index, TopK, "Bronze" \in raising) ])

\* SilverStep with a Silver result that is not tested: Bronze is never queried
SilverStepNoBronze(log, silver, index, raising) ==
    Append(log, [ tier |-> "Silver", raised |-> "Silver" \in raising, out |-> silver ])

\* SilverStep in which a Silver query that raised ends the cascade
SilverStepRaiseEnds(log, silver, index, raising) ==
    LET entry == [ tier |-> "Silver", raised |-> "Silver" \in raising, out |-> silver ]
    IN  IF silver = << >> /\ "Silver" \notin raising
        THEN BronzeStep(Append(log, entry), index, raising)
        ELSE Append(log, entry)

\* lines 376-378: the second query, reached with no Gold result
SilverStep(log, silver, index, raising) ==
    LET entry == [ tier |-> "Silver", raised |-> "Silver" \in raising, out |-> silver ]
    IN  IF silver = << >>
        THEN BronzeStep(Append(log, entry), index, raising)
        ELSE Append(log, entry)

\* GoldStep with the Gold result not tested: Silver is queried in any case
GoldStepAlwaysSilver(gold, edges, index, strat_key, raising) ==
    SilverStep(<< [ tier |-> "Gold", raised |-> "Gold" \in raising, out |-> gold ] >>,
               graph_rag_search(edges, index, strat_key, FALSE, "Silver" \in raising),
               index, raising)

\* lines 373-376: the first query
GoldStep(gold, edges, index, strat_key, raising) ==
    LET entry == [ tier |-> "Gold", raised |-> "Gold" \in raising, out |-> gold ]
    IN  IF gold = << >>
        THEN SilverStep(<< entry >>,
                        graph_rag_search(edges, index, strat_key, FALSE, "Silver" \in raising),
                        index, raising)
        ELSE << entry >>

\* the cascade of one ANALYZE: the queries issued, in order, each with what it
\* returned; raising is the set of tiers whose query would raise in the store
Cascade(edges, index, strat_key, raising) ==
    GoldStep(graph_rag_search(edges, index, strat_key, TRUE, "Gold" \in raising),
             edges, index, strat_key, raising)

\* generate_strategic_analysis: the text the external model returns, or the
\* fixed answer for an empty list
GeneratedAnalysis(input_text, retrieved_cases, strat_key, method) ==
    IF retrieved_cases = << >> THEN "No relevant precedents found."
    ELSE "text of the generative model"

NoButton == [ op |-> "none", embedded |-> FALSE, strat_key |-> "defense" ]

\* a script run in which ANALYZE was pressed
Analyze(input_text, strategy, emb, raising) ==
    /\ last' = IF input_text = "" THEN NoButton
               ELSE IF Truthy(emb)
                    THEN [ op |-> "ANALYZE", embedded |-> TRUE,
                           strat_key |-> StratKey(strategy) ]
                    ELSE [ NoButton EXCEPT !.op = "ANALYZE" ]
    /\ UNCHANGED << storeVars, expandVars, cardVars, scoreVars, benchVars >>
    /\ IF input_text = ""
       THEN /\ issued' = << >>
            /\ error_shown' = FALSE
            /\ UNCHANGED << results, analysis, search_method, case_input >>
       ELSE /\ case_input' = input_text
            /\ IF Truthy(emb)
               THEN \E log \in { Cascade(cites, vector_index, StratKey(strategy), raising) } :
                    \E final \in { log[Len(log)] } :
                        /\ issued' = log
                        /\ results' = Some(final.out)
                        /\ search_method' = Some(final.tier)
                        /\ analysis' =
                             IF final.out # << >>
                             THEN Some(GeneratedAnalysis(input_text, final.out,
                                                         StratKey(strategy), final.tier))
                             ELSE analysis
                        /\ error_shown' = FALSE
               ELSE /\ issued' = << >>
                    /\ error_shown' = TRUE
                    /\ UNCHANGED << results, analysis, search_method >>

\* Clear that leaves the tier label in the session
ClearKeepsMethod ==
    /\ results' = None
    /\ analysis' = None
    /\ case_input' = ""
    /\ issued' = << >>
    /\ error_shown' = FALSE
    /\ last' = [ NoButton EXCEPT !.op = "CLEAR" ]
    /\ UNCHANGED << search_method, storeVars, expandVars, cardVars, scoreVars, benchVars >>

\* a script run in which CLEAR was pressed, and the rerun it asks for
Clear ==
    /\ results' = None
    /\ analysis' = None
    /\ search_method' = None
    /\ case_input' = ""
    /\ issued' = << >>
    /\ error_shown' = FALSE
    /\ last' = [ NoButton EXCEPT !.op = "CLEAR" ]
    /\ UNCHANGED << storeVars, expandVars, cardVars, scoreVars, benchVars >>

\* what the script run draws below the buttons
Display ==
    IF results # None /\ results[1] # << >> THEN "cards"
    ELSE IF results # None THEN "no relevant cases found"
    ELSE "nothing"

-----------------------------------------------------------------------------
(* The stores the session may run against.                                 *)

\* the stores: the graphs over the cases 1..n with at most k CITES relationships, none
\* from a case to itself
GraphsOver(n, k) ==
    { E \in SUBSET { e \in (1..n) \X (1..n) : e[1] # e[2] } : Cardinality(E) <= k }

IndexBefore(a, b) ==
    \/ SimilarityOf(a) > SimilarityOf(b)
    \/ SimilarityOf(a) = SimilarityOf(b) /\ a < b

RECURSIVE IndexRows(_)
IndexRows(S) ==
    IF S = {} THEN << >>
    ELSE LET m == CHOOSE x \in S : \A y \in S \ {x} : IndexBefore(x, y)
         IN  << [node |-> m, score |-> SimilarityOf(m)] >> \o IndexRows(S \ {m})

\* the answers of the index over the cases 1..n: any of them, at most TopK
IndexAnswers(n) ==
    { IndexRows(S) : S \in { S \in SUBSET (1..n) : Cardinality(S) <= TopK } }

SessionIdle ==
    /\ results = None
    /\ analysis = None
    /\ search_method = None
    /\ case_input = ""
    /\ issued = << >>
    /\ error_shown = FALSE
    /\ last = NoButton

ExpandIdle == expanded = None

CardIdle == card = None /\ conf = None

ScoreIdle == ground_truth_list = << >> /\ retrieved_list = << >> /\ score = None

BenchIdle ==
    /\ test_cases = << >> /\ case_i = 1 /\ at = "idle" /\ calls = << >>
    /\ retrieval = None
    /\ vector_scores = << >> /\ graph_scores = << >>
    /\ scored_v = << >> /\ scored_g = << >>

SessionInit ==
    /\ cites \in GraphsOver(MaxCases, MaxEdges)
    /\ vector_index \in IndexAnswers(MaxCases)
    /\ results = None
    /\ analysis = None
    /\ search_method = None
    /\ case_input = ""
    /\ issued = << >>
    /\ error_shown = FALSE
    /\ last = NoButton

\* graph_rag_search called on its own
Expand(strategy, apply_filter, raises) ==
    /\ expanded' = Some([ strategy |-> strategy, apply_filter |-> apply_filter,
                          raised |-> raises,
                          out |-> graph_rag_search(cites, vector_index, strategy,
                                                   apply_filter, raises) ])
    /\ UNCHANGED << storeVars, sessionVars, cardVars, scoreVars, benchVars >>

\* Scenario A of the design, with further citations: case 1 (X) cites 3 (Y)
\* and 4 (Z), case 2 cites 3 too; 1 also cites 5 and 6, which cite 4
ScenarioEdges ==
    { <<1, 3>>, <<1, 4>>, <<2, 3>>, <<1, 5>>, <<5, 4>>, <<1, 6>>, <<6, 4>> }

ExpandInit ==
    /\ cites \in GraphsOver(MaxExpandCases, MaxExpandEdges) \cup SUBSET ScenarioEdges
    /\ vector_index \in IndexAnswers(MaxExpandCases)
    /\ SessionIdle /\ ExpandIdle /\ CardIdle /\ ScoreIdle /\ BenchIdle

ExpandNext ==
    \E strategy \in { "defense", "prosecution" }, apply_filter \in BOOLEAN,
       raises \in BOOLEAN :
        Expand(strategy, apply_filter, raises)

SpecExpand == ExpandInit /\ [][ExpandNext]_vars

-----------------------------------------------------------------------------
(* The confidence of a card (main, the loop over st.session_state.results).*)

\* int(x * 100) for a score x of so many thousandths: the product, truncated
IntOfProduct(thousandths, factor) == (thousandths * factor) \div 1000

\* round(x * 100) of Python for a score x of so many thousandths: to the
\* nearest integer, a half to the even one
RoundOfProduct(thousandths, factor) ==
    LET q == (thousandths * factor) \div 1000
        r == (thousandths * factor) % 1000
    IN  IF 2 * r < 1000 THEN q
        ELSE IF 2 * r > 1000 THEN q + 1
        ELSE IF q % 2 = 0 THEN q ELSE q + 1

\* Confidence with the product rounded instead of truncated
ConfidenceRounded(case) ==
    Min(RoundOfProduct(case.relevance_score, Percent)
            + case.citation_count * CitationBonus, ConfidenceCap)

\* conf = int(case['relevance_score'] * 100) + (case['citation_count'] * 5)
\* conf = min(conf, 99)
Confidence(case) ==
    Min(IntOfProduct(case.relevance_score, Percent)
            + case.citation_count * CitationBonus, ConfidenceCap)

\* one turn of the loop that draws the cards
ShowCard ==
    /\ conf = None
    /\ conf' = Some(Confidence(card))
    /\ UNCHANGED << card, storeVars, sessionVars, expandVars, scoreVars, benchVars >>

CardInit ==
    /\ card \in [ relevance_score : 0..1000, citation_count : 0..MaxCitations ]
    /\ conf = None
    /\ cites = {} /\ vector_index = << >>
    /\ SessionIdle /\ ExpandIdle /\ ScoreIdle /\ BenchIdle

SpecCard == CardInit /\ [][ShowCard]_vars

-----------------------------------------------------------------------------
(* calculate_score of benchmark.py. Scores are in tenths: 10 is 1.0.       *)

\* str.strip for the blank character
RECURSIVE StripLeft(_)
StripLeft(s) == IF s # << >> /\ s[1] = " " THEN StripLeft(Tail(s)) ELSE s

RECURSIVE StripRight(_)
StripRight(s) ==
    IF s # << >> /\ s[Len(s)] = " " THEN StripRight(SubSeq(s, 1, Len(s) - 1)) ELSE s

Strip(s) == StripRight(StripLeft(s))

\* the truth value of item['offense']: None and '' are false
OffenseGiven(offense) == offense # None /\ offense[1] # << >>

\* str(item['offense']).strip().lower()
NormalizedOffense(offense) == ToLower(Strip(offense[1]))

\* true_ids = {item['id'] for item in ground_truth_list}
TrueIds(truth) == { truth[i].id : i \in 1..Len(truth) }

\* true_offenses = {... for item in ground_truth_list if item['offense']}
TrueOffenses(truth) ==
    { NormalizedOffense(truth[i].offense) :
        i \in { i \in 1..Len(truth) : OffenseGiven(truth[i].offense) } }

\* found_offense = str(found['offense']).strip().lower() if found['offense'] else ""
FoundOffense(found) ==
    IF OffenseGiven(found.offense) THEN NormalizedOffense(found.offense) ELSE << >>

\* the for loop of calculate_score from item i on, and the return after it
RECURSIVE ScoreLoop(_, _, _, _, _)
ScoreLoop(true_ids, true_offenses, retrieved, i, max_points) ==
    IF i > Len(retrieved) THEN max_points
    ELSE IF retrieved[i].id \in true_ids THEN 10
    ELSE ScoreLoop(true_ids, true_offenses, retrieved, i + 1,
                   IF FoundOffense(retrieved[i]) \in true_offenses THEN 5
                   ELSE max_points)

calculate_score(truth, retrieved) ==
    ScoreLoop(TrueIds(truth), TrueOffenses(truth), retrieved, 1, 0)

Score ==
    /\ score = None
    /\ score' = Some(calculate_score(ground_truth_list, retrieved_list))
    /\ UNCHANGED << ground_truth_list, retrieved_list, storeVars, sessionVars,
                    expandVars, cardVars, benchVars >>

\* the offense values of the items: none, empty, blank, and offenses that
\* differ in letter case and in blanks around them
OffensePool ==
    { None, Some(<< >>), Some(<<" ">>), Some(<<"D","W","I">>),
      Some(<<" ","d","w","i"," ">>), Some(<<"T","h","e","f","t">>) }

ItemPool == [ id : { 1, 2 }, offense : OffensePool ]

ListsUpTo(S, n) == UNION { [1..k -> S] : k \in 0..n }

ScoreInit ==
    /\ ground_truth_list \in ListsUpTo(ItemPool, MaxTruth) \ { << >> }
    /\ retrieved_list \in ListsUpTo(ItemPool, MaxRetrieved)
    /\ score = None
    /\ cites = {} /\ vector_index = << >>
    /\ SessionIdle /\ ExpandIdle /\ CardIdle /\ BenchIdle

SpecScore == ScoreInit /\ [][Score]_vars

-----------------------------------------------------------------------------
(* benchmark.py: get_test_set, retrieve_cases and the loop of main.        *)

\* the CITES relationships that end at case d
CitedBy(edges, d) == { e \in edges : e[2] = d }

\* collect(DISTINCT cited): the cases c cites that have an offense and are
\* cited at least twice
ActualCitations(edges, c) ==
    { d \in { e[2] : e \in { e \in edges : e[1] = c } } :
        /\ OffenseOf(d) # None
        /\ Cardinality(CitedBy(edges, d)) >= AuthorityCitations }

\* the elements of a set of cases as a list, in ascending order
RECURSIVE Ascending(_)
Ascending(S) ==
    IF S = {} THEN << >>
    ELSE LET m == CHOOSE x \in S : \A y \in S : x <= y
         IN  << m >> \o Ascending(S \ {m})

\* the rows of the query of get_test_set for the cases c..n: one row per TEXT
\* node of a case that has a text, an offense and at least one such citation
RECURSIVE TestRows(_, _, _)
TestRows(edges, n, c) ==
    IF c > n THEN << >>
    ELSE LET cited == Ascending(ActualCitations(edges, c))
             here  == IF OffenseOf(c) = None \/ cited = << >> THEN << >>
                      ELSE [j \in 1..Len(TextsOf(c)) |->
                              [ id |-> c, text |-> TextsOf(c)[j],
                                source_offense |-> OffenseOf(c)[1],
                                ground_truth |->
                                    [k \in 1..Len(cited) |->
                                        [ id |-> cited[k],
                                          offense |-> OffenseOf(cited[k]) ]] ]]
         IN  here \o TestRows(edges, n, c + 1)

\* random.sample(data, sample_size): sample_size rows at distinct positions,
\* in any order
Samples(data, sample_size) ==
    { [k \in 1..sample_size |-> data[f[k]]] :
        f \in { f \in [1..sample_size -> 1..Len(data)] :
                    \A j, k \in 1..sample_size : j # k => f[j] # f[k] } }

\* what get_test_set(sample_size) may return over the cases 1..n
get_test_set(edges, n, sample_size) ==
    LET data == Prefix(TestRows(edges, n, 1), TestSetLimit)
    IN  IF Len(data) > sample_size THEN Samples(data, sample_size) ELSE { data }

\* sum(score) over the rows of a group
RECURSIVE SumScore(_, _)
SumScore(anchor_rows, group) ==
    IF group = {} THEN 0
    ELSE LET r == CHOOSE r \in group : TRUE
         IN  anchor_rows[r.a].score + SumScore(anchor_rows, group \ {r})

\* ORDER BY score DESC; records of equal score keep the store's order, taken
\* here as ascending id
RECURSIVE OrderByScore(_)
OrderByScore(S) ==
    IF S = {} THEN << >>
    ELSE LET m == CHOOSE x \in S : \A y \in S \ {x} :
                      \/ x.score > y.score
                      \/ x.score = y.score /\ x.id < y.id
         IN  << m >> \o OrderByScore(S \ {m})

\* retrieve_cases with use_graph=False: the index rows other than the source
\* case that have an offense
BaselineQuery(index, original_id) ==
    LET Kept(r) == r.node # original_id /\ OffenseOf(r.node) # None
        rows == Prefix(SelectSeq(QueryNodes(index, BenchLimit), Kept), BenchLimit)
    IN  [k \in 1..Len(rows) |-> [ id |-> rows[k].node, offense |-> OffenseOf(rows[k].node) ]]

\* retrieve_cases with use_graph=True: the anchors are the index rows other
\* than the source case; the precedents are the cases with an offense at the
\* end of a path of 1 or 2 CITES relationships from an anchor
BenchGraphQuery(edges, index, original_id) ==
    LET IsAnchor(r) == r.node # original_id
        anchor_rows == SelectSeq(QueryNodes(index, BenchAnchors), IsAnchor)
        rows == UNION { { [a |-> k, path |-> pa, p |-> pa[Len(pa)]] :
                            pa \in { pa \in CitesPaths(edges, anchor_rows[k].node) :
                                        OffenseOf(pa[Len(pa)]) # None } } :
                        k \in 1..Len(anchor_rows) }
        groups == { [ id |-> p, offense |-> OffenseOf(p),
                      score |-> SumScore(anchor_rows, { r \in rows : r.p = p }) ] :
                    p \in { r.p : r \in rows } }
        sorted == Prefix(OrderByScore(groups), BenchLimit)
    IN  [k \in 1..Len(sorted) |-> [ id |-> sorted[k].id, offense |-> sorted[k].offense ]]

\* the embedding is given by the rows the index yields for it
retrieve_cases(edges, index, original_id, use_graph) ==
    IF use_graph THEN BenchGraphQuery(edges, index, original_id)
    ELSE BaselineQuery(index, original_id)

\* the CASE nodes of the stores of the benchmark
BenchCaseIds == { 1, 2, 3, 4 }

\* the position after the body of the loop for case k
AfterCase(k) == IF k + 1 > Len(test_cases) THEN "done" ELSE "embed"

\* Embed that goes on to the retrieval when the embedding call failed
EmbedWithoutContinue ==
    /\ at = "embed"
    /\ \E emb \in Embeddings, answer \in IndexAnswers(Cardinality(BenchCaseIds)) :
          /\ calls' = Append(calls, [ case |-> case_i, call |-> "embed",
                                      ok |-> Truthy(emb) ])
          /\ vector_index' = answer
          /\ at' = "vector"
          /\ UNCHANGED case_i
    /\ UNCHANGED << cites, test_cases, retrieval, vector_scores, graph_scores,
                    scored_v, scored_g, sessionVars, expandVars, cardVars, scoreVars >>

\* lines 141-143: emb = get_embedding(input_text); if not emb: continue
Embed ==
    /\ at = "embed"
    /\ \E emb \in Embeddings, answer \in IndexAnswers(Cardinality(BenchCaseIds)) :
          /\ calls' = Append(calls, [ case |-> case_i, call |-> "embed",
                                      ok |-> Truthy(emb) ])
          /\ IF Truthy(emb)
             THEN /\ vector_index' = answer
                  /\ at' = "vector"
                  /\ UNCHANGED case_i
             ELSE /\ case_i' = case_i + 1
                  /\ at' = AfterCase(case_i)
                  /\ UNCHANGED vector_index
    /\ UNCHANGED << cites, test_cases, retrieval, vector_scores, graph_scores,
                    scored_v, scored_g, sessionVars, expandVars, cardVars, scoreVars >>

\* lines 145-147: the baseline retrieval and its score; an exception of the
\* query is not caught and ends the program
RetrieveVector(raises) ==
    /\ at = "vector"
    /\ calls' = Append(calls, [ case |-> case_i, call |-> "vector", ok |-> ~raises ])
    /\ IF raises
       THEN /\ at' = "crashed"
            /\ UNCHANGED << retrieval, vector_scores, scored_v >>
       ELSE \E res_v \in { retrieve_cases(cites, vector_index,
                                          test_cases[case_i].id, FALSE) } :
              /\ retrieval' = Some([ original_id |-> test_cases[case_i].id,
                                     use_graph |-> FALSE, out |-> res_v ])
              /\ vector_scores' =
                    Append(vector_scores,
                           calculate_score(test_cases[case_i].ground_truth, res_v))
              /\ scored_v' = Append(scored_v, case_i)
              /\ at' = "graph"
    /\ UNCHANGED << storeVars, test_cases, case_i, graph_scores, scored_g,
                    sessionVars, expandVars, cardVars, scoreVars >>

\* lines 149-152: the graph retrieval and its score, and the end of the body
RetrieveGraph(raises) ==
    /\ at = "graph"
    /\ calls' = Append(calls, [ case |-> case_i, call |-> "graph", ok |-> ~raises ])
    /\ IF raises
       THEN /\ at' = "crashed"
            /\ UNCHANGED << retrieval, graph_scores, scored_g, case_i >>
       ELSE \E res_g \in { retrieve_cases(cites, vector_index,
                                          test_cases[case_i].id, TRUE) } :
              /\ retrieval' = Some([ original_id |-> test_cases[case_i].id,
                                     use_graph |-> TRUE, out |-> res_g ])
              /\ graph_scores' =
                    Append(graph_scores,
                           calculate_score(test_cases[case_i].ground_truth, res_g))
              /\ scored_g' = Append(scored_g, case_i)
              /\ case_i' = case_i + 1
              /\ at' = AfterCase(case_i)
    /\ UNCHANGED << storeVars, test_cases, vector_scores, scored_v,
                    sessionVars, expandVars, cardVars, scoreVars >>

\* line 133: test_cases = get_test_set(150), and the empty score lists
BenchInit ==
    /\ cites \in GraphsOver(Cardinality(BenchCaseIds), MaxBenchEdges)
    /\ vector_index = << >>
    /\ test_cases \in get_test_set(cites, Cardinality(BenchCaseIds), SampleSize)
    /\ case_i = 1
    /\ at = IF test_cases = << >> THEN "done" ELSE "embed"
    /\ calls = << >>
    /\ retrieval = None
    /\ vector_scores = << >> /\ graph_scores = << >>
    /\ scored_v = << >> /\ scored_g = << >>
    /\ SessionIdle /\ ExpandIdle /\ CardIdle /\ ScoreIdle

BenchNext ==
    \/ Embed
    \/ \E raises \in BOOLEAN : RetrieveVector(raises)
    \/ \E raises \in BOOLEAN : RetrieveGraph(raises)

SpecBench == BenchInit /\ [][BenchNext]_vars

Init == SessionInit /\ ExpandIdle /\ CardIdle /\ ScoreIdle /\ BenchIdle

Next ==
    \/ \E input_text \in InputTexts \ {""}, strategy \in Strategies,
          raising \in SUBSET Tiers :
            Analyze(input_text, strategy, Some(<< 12, 7 >>), raising)
    \/ \E input_text \in InputTexts \ {""}, strategy \in Strategies,
          emb \in { e \in Embeddings : ~Truthy(e) } :
            Analyze(input_text, strategy, emb, {})
    \/ \E strategy \in Strategies : Analyze("", strategy, None, {})
    \/ Clear

Spec == Init /\ [][Next]_vars

-----------------------------------------------------------------------------
(* Properties of the cascade (specification Spec).                         *)

\* the latest script run handled ANALYZE and its embedding call succeeded
Ran == last.op = "ANALYZE" /\ last.embedded

\* the latest script run handled ANALYZE and its embedding call failed
EmbeddingFailed == last.op = "ANALYZE" /\ ~last.embedded

IssuedTiers == [i \in 1..Len(issued) |-> issued[i].tier]

\* what the store answers to the query of a tier, when the query does not raise
StoreAnswer(tier) ==
    IF tier = "Bronze" THEN VectorRows(QueryNodes(vector_index, TopK), 1)
    ELSE CypherGraphQuery(cites, vector_index, TopK,
                          FilterClause(last.strat_key, tier = "Gold"))

\* every logged query returned what the store answered, or [] when it raised
LogFaithful ==
    \A i \in 1..Len(issued) :
        issued[i].out = IF issued[i].raised THEN << >> ELSE StoreAnswer(issued[i].tier)

\* C1 (cascade ordering): after an ANALYZE whose embedding succeeded, the Gold
\* query is the first one issued; if it returned at least one result, the
\* tier label is "Gold", the stored results are exactly the Gold output, in
\* its order, and no Silver or Bronze query was issued.
CascadeOrdering ==
    Ran =>
        /\ Len(issued) >= 1 /\ issued[1].tier = "Gold" /\ LogFaithful
        /\ issued[1].out # << >> =>
              /\ search_method = Some("Gold")
              /\ results = Some(issued[1].out)
              /\ IssuedTiers = << "Gold" >>

GoldServed ==
    /\ Ran /\ ~issued[1].raised
    /\ search_method = Some("Gold")
    /\ Len(results[1]) >= 2
    /\ results[1] = StoreAnswer("Gold")

\* C2 (fallthrough): after an ANALYZE whose embedding succeeded, if the Gold
\* query and the Silver query both returned empty, the Bronze query was
\* issued after them, in the order Gold, Silver, Bronze, and its result, empty
\* or not, is the stored result with the label "Bronze"; the run has ended
\* with a stored result in every case.
FallthroughCorrectness ==
    Ran =>
        /\ LogFaithful
        /\ results # None /\ search_method # None
        /\ issued[1].out = << >> =>
              /\ Len(issued) >= 2 /\ issued[2].tier = "Silver"
              /\ issued[2].out = << >> =>
                    /\ IssuedTiers = << "Gold", "Silver", "Bronze" >>
                    /\ results = Some(issued[3].out)
                    /\ search_method = Some("Bronze")

BronzeEmptyIsFinal ==
    /\ Ran
    /\ IssuedTiers = << "Gold", "Silver", "Bronze" >>
    /\ \A i \in 1..3 : ~issued[i].raised
    /\ results = Some(<< >>)
    /\ search_method = Some("Bronze")

\* C3 (tier failure is tier empty): after an ANALYZE whose embedding
\* succeeded, a query that raised counts as an empty result: the run still
\* stores a result and shows no error, the tier after a failed Gold or Silver
\* query was attempted, Bronze was attempted whenever Gold and Silver each
\* raised or returned empty, and a Bronze query that raised leaves the empty
\* list as the final result.
TierFailureIsEmpty ==
    Ran =>
        /\ results # None /\ ~error_shown
        /\ \A i \in 1..Len(issued) :
              issued[i].raised =>
                  /\ issued[i].out = << >>
                  /\ issued[i].tier = "Gold" =>
                        Len(issued) > i /\ issued[i + 1].tier = "Silver"
                  /\ issued[i].tier = "Silver" =>
                        Len(issued) > i /\ issued[i + 1].tier = "Bronze"
                  /\ issued[i].tier = "Bronze" =>
                        results = Some(<< >>) /\ search_method = Some("Bronze")
        /\ (\A i \in 1..Len(issued) :
                issued[i].tier \in { "Gold", "Silver" } => issued[i].out = << >>)
              => IssuedTiers = << "Gold", "Silver", "Bronze" >>

BronzeAfterTwoFailures ==
    /\ Ran
    /\ IssuedTiers = << "Gold", "Silver", "Bronze" >>
    /\ issued[1].raised /\ issued[2].raised /\ ~issued[3].raised
    /\ StoreAnswer("Silver") # << >>
    /\ results[1] # << >>

\* C4 (Scenario C): after an ANALYZE whose embedding call failed, no store
\* query was issued, the error is shown, and the session holds no result list.
EmbeddingFailureHasNoResults ==
    EmbeddingFailed => issued = << >> /\ error_shown /\ results = None

\* the precedents reachable from an anchor by one or two CITES relationships
ReachableFrom(edges, a) ==
    { e[2] : e \in { e \in edges : e[1] = a } }
    \cup { ef[2][2] : ef \in { ef \in edges \X edges : ef[1][1] = a /\ ef[2][1] = ef[1][2] } }

Reachable(edges, index) ==
    UNION { ReachableFrom(edges, index[i].node) : i \in 1..Len(index) }

KeywordsOf(strat_key) ==
    IF strat_key = "defense"
    THEN { <<"r","e","v","e","r","s","e">>, <<"a","c","q","u","i","t">> }
    ELSE { <<"a","f","f","i","r","m">> }

KeywordTest(decision, strat_key) ==
    /\ decision # None
    /\ \E kw \in KeywordsOf(strat_key) : Contains(ToLower(decision[1]), kw)

\* C8 (outcome filter): every record of a Gold result has a decision summary
\* with a keyword of the strategy, whatever its letter case; a reachable
\* precedent that fails the keyword test is in no Gold record; if the only
\* reachable precedent fails the test, Gold returns empty, Silver is queried
\* and, unless its query raises, returns that precedent.
OutcomeFilter ==
    Ran =>
        /\ \A i \in 1..Len(issued[1].out) :
              /\ KeywordTest(issued[1].out[i].decision, last.strat_key)
              /\ issued[1].out[i].decision = DecisionOf(issued[1].out[i].id)
        /\ \A p \in Reachable(cites, QueryNodes(vector_index, TopK)) :
              /\ ~KeywordTest(DecisionOf(p), last.strat_key) =>
                    \A i \in 1..Len(issued[1].out) : issued[1].out[i].id # p
              /\ ( /\ Reachable(cites, QueryNodes(vector_index, TopK)) = { p }
                   /\ ~KeywordTest(DecisionOf(p), last.strat_key) ) =>
                    /\ issued[1].out = << >>
                    /\ Len(issued) >= 2 /\ issued[2].tier = "Silver"
                    /\ ~issued[2].raised =>
                          /\ issued[2].out # << >>
                          /\ \A i \in 1..Len(issued[2].out) : issued[2].out[i].id = p

ScenarioB ==
    /\ Ran /\ last.strat_key = "defense"
    /\ Reachable(cites, QueryNodes(vector_index, TopK)) = { 1 }
    /\ IssuedTiers = << "Gold", "Silver" >>
    /\ ~issued[1].raised /\ ~issued[2].raised
    /\ search_method = Some("Silver")
    /\ results[1][1].id = 1

-----------------------------------------------------------------------------
(* Properties of graph_rag_search (specification SpecExpand).              *)

Expanded == expanded # None

ExpandedOut == expanded[1].out

\* the anchor rows from whose node the case is reachable by one or two CITES
AnchorsReaching(p) ==
    { k \in 1..Len(QueryNodes(vector_index, TopK)) :
        p \in ReachableFrom(cites, QueryNodes(vector_index, TopK)[k].node) }

\* C5 (dedup): no case id appears in two records of one output of
\* graph_rag_search.
DedupInvariant ==
    Expanded =>
        \A i, j \in 1..Len(ExpandedOut) :
            i # j => ExpandedOut[i].id # ExpandedOut[j].id

\* C6 (citation count): in every record of an output of graph_rag_search,
\* citation_count is the number of distinct anchors from which the precedent
\* is reachable by one or two CITES, however many paths lead there, and
\* found_via holds at most 3 names, no name twice, each the name of an anchor
\* that reached the precedent.
CitationCountIsDistinctAnchors ==
    Expanded =>
        \A i \in 1..Len(ExpandedOut) :
            LET rec == ExpandedOut[i]
            IN  /\ rec.citation_count = Cardinality(AnchorsReaching(rec.id))
                /\ Len(rec.found_via) <= 3
                /\ \A a, b \in 1..Len(rec.found_via) :
                      a # b => rec.found_via[a] # rec.found_via[b]
                /\ \A a \in 1..Len(rec.found_via) :
                      \E k \in AnchorsReaching(rec.id) :
                          NameOf(QueryNodes(vector_index, TopK)[k].node)
                              = Some(rec.found_via[a])

RanksBefore(x, y) ==
    \/ x.citation_count > y.citation_count
    \/ x.citation_count = y.citation_count /\ x.relevance_score > y.relevance_score

\* C7 (ranking): an output of graph_rag_search is sorted by citation_count
\* descending, then relevance_score descending, holds at most 5 records, no
\* record left out ranks before one that is kept, and a precedent reached by
\* two anchors stands before every precedent reached by one anchor only: by
\* the sort keys, the latter never ranks before the former.
RankedByCitationsThenRelevance ==
    Expanded =>
        /\ \A i, j \in 1..Len(ExpandedOut) :
              i < j => ~RanksBefore(ExpandedOut[j], ExpandedOut[i])
        /\ Len(ExpandedOut) <= 5
        /\ ~expanded[1].raised =>
              LET all == { Data(g) : g \in Groups(cites, QueryNodes(vector_index, TopK),
                                FilterClause(expanded[1].strategy, expanded[1].apply_filter)) }
                  kept == { ExpandedOut[i] : i \in 1..Len(ExpandedOut) }
              IN  /\ kept \subseteq all
                  /\ Cardinality(kept) = Min(5, Cardinality(all))
                  /\ \A g \in all \ kept : \A r \in kept : ~RanksBefore(g, r)
        /\ \A i, j \in 1..Len(ExpandedOut) :
              ( /\ Cardinality(AnchorsReaching(ExpandedOut[i].id)) = 2
                /\ Cardinality(AnchorsReaching(ExpandedOut[j].id)) = 1 ) =>
                    ~RanksBefore(ExpandedOut[j], ExpandedOut[i])


-----------------------------------------------------------------------------
(* The confidence of a card.                                               *)

\* C9, as stated: the displayed confidence of a card is
\* min(round(relevance_score * 100) + citation_count * 5, 99), and it lies
\* between 0 and 99.
ConfidenceIsRounded ==
    conf # None =>
        /\ conf[1] = Min(RoundOfProduct(card.relevance_score, 100)
                            + card.citation_count * 5, 99)
        /\ conf[1] \in 0..99

\* C9, amended: the displayed confidence of a card is
\* min(p + citation_count * 5, 99) where p is the integer part of
\* relevance_score * 100 (p <= relevance_score * 100 < p + 1), and it lies
\* between 0 and 99.
ConfidenceIsTruncated ==
    conf # None =>
        /\ conf[1] \in 0..99
        /\ \E p \in 0..100 :
              /\ p * 1000 <= card.relevance_score * 100
              /\ card.relevance_score * 100 < (p + 1) * 1000
              /\ conf[1] = Min(p + card.citation_count * 5, 99)

\* a card below the cap whose product has a fractional part of a half or more
FractionDropped ==
    /\ conf # None
    /\ 2 * ((card.relevance_score * 100) % 1000) >= 1000
    /\ conf[1] < 99

-----------------------------------------------------------------------------
(* calculate_score.                                                        *)

\* the offenses of a list as the claim compares them: trimmed and lower-cased
TrimmedLowerOffenses(list) ==
    { ToLower(Strip(list[i].offense[1])) :
        i \in { i \in 1..Len(list) : list[i].offense # None } }

\* C10: calculate_score returns 1.0 if some retrieved id is a ground-truth
\* id, wherever it stands in the list; otherwise 0.5 if some retrieved
\* offense, trimmed and lower-cased, equals some ground-truth offense,
\* trimmed and lower-cased; otherwise 0.0, whatever the order of the
\* retrieved list and the number of soft matches.
ScoreIsHardThenSoft ==
    score # None =>
        score[1] =
            IF TrueIds(retrieved_list) \cap TrueIds(ground_truth_list) # {}
            THEN 10
            ELSE IF TrimmedLowerOffenses(retrieved_list)
                        \cap TrimmedLowerOffenses(ground_truth_list) # {}
            THEN 5
            ELSE 0

-----------------------------------------------------------------------------
(* The tier label of the session (specification Spec).                     *)

\* the script run that ends in the next state stored the output of its last
\* query together with the label of the tier of that query (the queries of a
\* run return what the store answers, LogFaithful)
StoredWithLabel ==
    /\ issued' # << >>
    /\ results' = Some(issued'[Len(issued')].out)
    /\ search_method' = Some(issued'[Len(issued')].tier)

\* C12: in every session state reachable by ANALYZE (with an embedding that
\* succeeds or fails) and CLEAR, search_method is unset exactly when results
\* is unset, and it is otherwise one of the labels "Gold", "Silver" and
\* "Bronze"; a script run either leaves results and search_method as they
\* were, or unsets both, or stores the output of a tier's query together with
\* the label of that tier.
TierLabelRetained ==
    /\ [] ( /\ search_method = None <=> results = None
            /\ search_method # None => search_method[1] \in Tiers
            /\ LogFaithful )
    /\ [][ \/ UNCHANGED << results, search_method >>
           \/ results' = None /\ search_method' = None
           \/ StoredWithLabel ]_vars

\* the embedding call of an ANALYZE failed and the session still holds the
\* Silver results of an earlier run with their label
LabelKeptAfterFailure ==
    /\ EmbeddingFailed
    /\ search_method = Some("Silver")
    /\ results # None /\ results[1] # << >>

-----------------------------------------------------------------------------
(* The benchmark (specification SpecBench).                                *)

\* C11: neither the baseline retrieval nor the graph retrieval of the
\* benchmark returns the source case (original_id) among its results,
\* whatever the citation graph.
SourceNotRetrieved ==
    retrieval # None =>
        \A k \in 1..Len(retrieval[1].out) :
            retrieval[1].out[k].id # retrieval[1].original_id

\* the cases whose embedding call succeeded, in the order of the calls
EmbeddedCases ==
    LET Succeeded(c) == c.call = "embed" /\ c.ok
        embeds == SelectSeq(calls, Succeeded)
    IN  [k \in 1..Len(embeds) |-> embeds[k].case]

\* the cases whose embedding call failed
FailedCases ==
    { calls[k].case : k \in { k \in 1..Len(calls) :
                                calls[k].call = "embed" /\ ~calls[k].ok } }

\* C13: the cases are processed one after the other, and a retrieval query of
\* a case comes after the embedding call of that case, which succeeded; a
\* case whose embedding call failed has no retrieval query and no entry in
\* vector_scores nor in graph_scores; between two cases and at the end, both
\* lists have one entry per case whose embedding succeeded, and their i-th
\* entries belong to the same case.
BenchLoopOrder ==
    /\ \A k \in 2..Len(calls) : calls[k - 1].case <= calls[k].case
    /\ \A k \in 1..Len(calls) :
          IF calls[k].call = "embed"
          THEN \A j \in 1..(k - 1) : calls[j].case < calls[k].case
          ELSE \E j \in 1..(k - 1) :
                  /\ calls[j].case = calls[k].case
                  /\ calls[j].call = "embed" /\ calls[j].ok
    /\ \A c \in FailedCases :
          /\ \A k \in 1..Len(calls) : calls[k].case = c => calls[k].call = "embed"
          /\ \A k \in 1..Len(scored_v) : scored_v[k] # c
          /\ \A k \in 1..Len(scored_g) : scored_g[k] # c
    /\ Len(scored_v) = Len(vector_scores) /\ Len(scored_g) = Len(graph_scores)
    /\ at \in { "embed", "done" } =>
          /\ Len(vector_scores) = Len(EmbeddedCases)
          /\ Len(graph_scores) = Len(EmbeddedCases)
          /\ scored_v = EmbeddedCases
          /\ scored_g = EmbeddedCases

\* the loop has ended, the embedding call of the first case failed, and the
\* second case has its two scores
FailedCaseSkipped ==
    /\ at = "done"
    /\ 1 \in FailedCases
    /\ scored_v = << 2 >> /\ scored_g = << 2 >>
    /\ Len(vector_scores) = 1 /\ Len(graph_scores) = 1

====
